---- MODULE Spec2Model ----
(***************************************************************************)
(* TaxPilot: the conversation flow manager (services/flowManager) and the  *)
(* in-memory client store it reads (database/index).                       *)
(*                                                                         *)
(* State: the activeFlows map (client id -> ConversationFlowState), the    *)
(* db.clients map (client id -> ClientProfile projection the flow manager  *)
(* reads), the db.taxPros roster, the last call with its return value,     *)
(* and walk, how many tool calls of the documented walkthrough each        *)
(* client has made.  Timestamps (startedAt, lastActivityAt, updatedAt)     *)
(* are left out.                                                           *)
(***************************************************************************)
EXTENDS Integers, Sequences, FiniteSets, TLC

VARIABLES activeFlows, clients, last, walk, taxPros, sseSessions, uuids

\* the state of the legacy SSE transport: the open connections by session id
\* and the number of session ids issued so far
sse == <<sseSessions, uuids>>

vars == <<activeFlows, clients, last, walk, taxPros, sseSessions, uuids>>

----------------------------------------------------------------------------
(* Bounds and input sets *)

\* client ids the callers use
Clients == {"c1", "c2"}

\* the client whose whole conversation is followed (Spec); NextPair runs
\* the flow calls for every client id side by side
MainClients == {"c1"}

\* session ids handed to getOrCreateFlowState / syncFlowWithState
\* ("" is what get_conversation_flow passes when no session id is given)
SessionIds == {"", "s1"}

\* JS undefined
UNDEFINED == "undefined"

\* tax professional ids handed to setSelectedTaxPro / stored as assignedTaxPro
TaxProIds == {"tp-001"}

\* scheduling preferences handed to setSchedulingPreferences
Preferences == {"virtual"}

\* appointment ids stored as client.appointmentId
AppointmentIds == {"apt-1"}

----------------------------------------------------------------------------
(* The flow sequence *)

FLOW_SEQUENCE ==
    << "welcome", "intake_questions", "summary_review", "summary_confirmation",
       "document_checklist", "availability_inquiry", "taxpro_routing",
       "appointment_scheduling", "reminders_setup", "complete" >>

Stages == { FLOW_SEQUENCE[i] : i \in 1..Len(FLOW_SEQUENCE) }

\* FLOW_SEQUENCE.indexOf(stage), 1-based
IndexOf(stage) == CHOOSE i \in 1..Len(FLOW_SEQUENCE) : FLOW_SEQUENCE[i] = stage

ToSet(seq) == { seq[i] : i \in 1..Len(seq) }

\* completedStages.includes(stage)
Includes(seq, x) == \E i \in 1..Len(seq) : seq[i] = x

\* completedStages.push(stage) without the includes test
PushIfMissing_always(seq, x) == Append(seq, x)

\* if (!completedStages.includes(stage)) completedStages.push(stage)
PushIfMissing(seq, x) == IF Includes(seq, x) THEN seq ELSE Append(seq, x)

----------------------------------------------------------------------------
(* Stage data: an entry maps keys to values; "absent" = key not present    *)
(* (an entry with every key absent stands for undefined and for {}).       *)

Keys == {"started", "completed", "shown", "generated", "created",
         "confirmed", "collected", "selected", "preferences", "taxProId"}

ABSENT == "absent"

EmptyEntry == [k \in Keys |-> ABSENT]

\* JS truthiness of a stored value: "true" is the boolean true, "yes" a
\* non-empty string; an absent key reads as undefined
Truthy(v) == v # ABSENT

\* v === true
IsTrue(v) == v = "true"

Entry1(k, v) == [EmptyEntry EXCEPT ![k] = v]

\* { ...(old || {}), ...stageData }
Merge(old, data) == [k \in Keys |-> IF data[k] # ABSENT THEN data[k] ELSE old[k]]

NoData == EmptyEntry

\* stageData arguments passed to advanceFlow: what the tool handlers send
\* (started, completed, shown, generated, created), and a truthy value that
\* is not the boolean true, as advance_conversation_flow lets a caller send
DataInputs ==
    { NoData,
      Entry1("started", "true"),
      Entry1("completed", "true"),
      Entry1("shown", "true"),
      Entry1("shown", "yes"),
      Entry1("generated", "true"),
      Entry1("created", "true") }

\* the stage data offered while the flow is at a stage: the data of the
\* handlers that act on that stage (start_intake, process_intake_response,
\* get_client_summary, generate_document_checklist, create_appointment)
StageInputs(stage) ==
    CASE stage = "welcome" -> {Entry1("started", "true"), Entry1("completed", "true")}
      [] stage = "intake_questions" -> {Entry1("completed", "true")}
      [] stage = "summary_review" -> {Entry1("shown", "true"), Entry1("shown", "yes")}
      [] stage = "document_checklist" -> {Entry1("generated", "true")}
      [] stage = "appointment_scheduling" -> {Entry1("created", "true")}
      [] stage = "reminders_setup" -> {Entry1("created", "true")}
      [] OTHER -> {}

----------------------------------------------------------------------------
(* Client store *)

\* what db.getClient yields for an unknown id (fields are never read)
NoClient ==
    [found |-> FALSE, intakeCompleted |-> FALSE, hasDocuments |-> FALSE,
     assignedTaxPro |-> UNDEFINED, appointmentId |-> UNDEFINED]

NewClient ==
    [found |-> TRUE, intakeCompleted |-> FALSE, hasDocuments |-> FALSE,
     assignedTaxPro |-> UNDEFINED, appointmentId |-> UNDEFINED]

getClient(id) == IF id \in DOMAIN clients THEN clients[id] ELSE NoClient

MapSet(m, k, v) == [x \in (DOMAIN m) \cup {k} |-> IF x = k THEN v ELSE m[x]]

----------------------------------------------------------------------------
(* STAGE_CONFIG[stage].completionCheck(state, client) *)

Check(ok, noBlockers, msg) ==
    [canProceed |-> ok, blockers |-> IF noBlockers THEN << >> ELSE << msg >>]

\* completionCheck whose appointment_scheduling predicate reads the created
\* flag of the stage data instead of the client record
completionCheck_createdFlag(stage, state, client) ==
    CASE stage = "welcome" ->
           LET hasSession == state.sessionId # UNDEFINED /\ state.sessionId # ""
           IN  Check(hasSession, hasSession, "Intake session must be started")
      [] stage = "intake_questions" ->
           LET isComplete == client.found /\ client.intakeCompleted
           IN  Check(isComplete, isComplete, "All intake questions must be completed")
      [] stage = "summary_review" ->
           LET shown == state.stageData["summary_review"]["shown"]
           IN  Check(IsTrue(shown), Truthy(shown), "Summary must be displayed to user")
      [] stage = "summary_confirmation" ->
           Check(state.summaryConfirmed, state.summaryConfirmed,
                 "User must confirm their summary information")
      [] stage = "document_checklist" ->
           LET generated == state.stageData["document_checklist"]["generated"]
           IN  Check(IsTrue(generated), Truthy(generated),
                     "Document checklist must be generated and shown")
      [] stage = "availability_inquiry" ->
           LET hasPreferences == state.preferredSchedule # UNDEFINED
           IN  Check(hasPreferences, hasPreferences,
                     "Scheduling preferences must be collected")
      [] stage = "taxpro_routing" ->
           LET hasTaxPro == state.selectedTaxProId # UNDEFINED
           IN  Check(hasTaxPro, hasTaxPro, "Tax professional must be selected")
      [] stage = "appointment_scheduling" ->
           LET hasAppointment ==
                   IsTrue(state.stageData["appointment_scheduling"]["created"])
           IN  Check(hasAppointment, hasAppointment, "Appointment must be created")
      [] stage = "reminders_setup" ->
           LET created == state.stageData["reminders_setup"]["created"]
           IN  Check(IsTrue(created), Truthy(created), "Reminders should be created")
      [] stage = "complete" ->
           Check(TRUE, TRUE, "")

completionCheck(stage, state, client) ==
    CASE stage = "welcome" ->
           LET hasSession == state.sessionId # UNDEFINED /\ state.sessionId # ""
           IN  Check(hasSession, hasSession, "Intake session must be started")
      [] stage = "intake_questions" ->
           LET isComplete == client.found /\ client.intakeCompleted
           IN  Check(isComplete, isComplete, "All intake questions must be completed")
      [] stage = "summary_review" ->
           LET shown == state.stageData["summary_review"]["shown"]
           IN  Check(IsTrue(shown), Truthy(shown), "Summary must be displayed to user")
      [] stage = "summary_confirmation" ->
           Check(state.summaryConfirmed, state.summaryConfirmed,
                 "User must confirm their summary information")
      [] stage = "document_checklist" ->
           LET generated == state.stageData["document_checklist"]["generated"]
           IN  Check(IsTrue(generated), Truthy(generated),
                     "Document checklist must be generated and shown")
      [] stage = "availability_inquiry" ->
           LET hasPreferences == state.preferredSchedule # UNDEFINED
           IN  Check(hasPreferences, hasPreferences,
                     "Scheduling preferences must be collected")
      [] stage = "taxpro_routing" ->
           LET hasTaxPro == state.selectedTaxProId # UNDEFINED
           IN  Check(hasTaxPro, hasTaxPro, "Tax professional must be selected")
      [] stage = "appointment_scheduling" ->
           LET hasAppointment == client.found /\ client.appointmentId # UNDEFINED
           IN  Check(hasAppointment, hasAppointment, "Appointment must be created")
      [] stage = "reminders_setup" ->
           LET created == state.stageData["reminders_setup"]["created"]
           IN  Check(IsTrue(created), Truthy(created), "Reminders should be created")
      [] stage = "complete" ->
           Check(TRUE, TRUE, "")

----------------------------------------------------------------------------
(* Flow manager functions, as transformers of one ConversationFlowState *)

initializeFlow(clientId, sessionId) ==
    [clientId         |-> clientId,
     sessionId        |-> sessionId,
     currentStage     |-> "welcome",
     completedStages  |-> << >>,
     stageData        |-> [s \in Stages |-> EmptyEntry],
     summaryConfirmed |-> FALSE,
     selectedTaxProId |-> UNDEFINED,
     preferredSchedule |-> UNDEFINED]

\* Math.round(n / d * 100) for naturals n, d
RoundPercent(n, d) == (200 * n + d) \div (2 * d)

\* getFlowStatus reporting the zero-based index of the current stage
getFlowStatus_zeroBased(state, client) ==
    LET completionResult == completionCheck(state.currentStage, state, client)
        currentIndex     == IndexOf(state.currentStage) - 1
    IN  [currentStage |-> state.currentStage,
         canProceed   |-> completionResult.canProceed,
         blockers     |-> completionResult.blockers,
         progress     |-> [current    |-> currentIndex,
                           total      |-> Len(FLOW_SEQUENCE),
                           percentage |-> RoundPercent(currentIndex, Len(FLOW_SEQUENCE))]]

\* the FlowActionResult built from a state (text fields left out)
getFlowStatus(state, client) ==
    LET completionResult == completionCheck(state.currentStage, state, client)
        currentIndex     == IndexOf(state.currentStage)
    IN  [currentStage |-> state.currentStage,
         canProceed   |-> completionResult.canProceed,
         blockers     |-> completionResult.blockers,
         progress     |-> [current    |-> currentIndex,
                           total      |-> Len(FLOW_SEQUENCE),
                           percentage |-> RoundPercent(currentIndex, Len(FLOW_SEQUENCE))]]

\* the display built by getFlowProgressDisplay from a state: the marker of
\* each stage in FLOW_SEQUENCE order and the percentage line
getFlowProgressDisplay(state) ==
    LET currentIndex == IndexOf(state.currentStage)
    IN  [markers |->
            [index \in 1..Len(FLOW_SEQUENCE) |->
                IF Includes(state.completedStages, FLOW_SEQUENCE[index])
                THEN "completed"
                ELSE IF index = currentIndex THEN "current" ELSE "pending"],
         percentage |-> RoundPercent(currentIndex, Len(FLOW_SEQUENCE))]

\* advanceFlow looping on: it moves on again when the predicate of the stage
\* it reached already holds
advanceFlow_twoSteps(state, client, stageData) ==
    LET stage   == state.currentStage
        stored  == [state EXCEPT !.stageData[stage] = Merge(@, stageData)]
        i       == IndexOf(stage)
        one     == [stored EXCEPT
                      !.completedStages = PushIfMissing(@, stage),
                      !.currentStage = IF i < Len(FLOW_SEQUENCE)
                                       THEN FLOW_SEQUENCE[i + 1] ELSE @]
        j       == IndexOf(one.currentStage)
    IN  IF ~completionCheck(stage, stored, client).canProceed THEN stored
        ELSE IF j < Len(FLOW_SEQUENCE)
                /\ completionCheck(one.currentStage, one, client).canProceed
             THEN [one EXCEPT
                     !.completedStages = PushIfMissing(@, one.currentStage),
                     !.currentStage = FLOW_SEQUENCE[j + 1]]
             ELSE one

\* advanceFlow without the completion check
advanceFlow_alwaysAdvance(state, client, stageData) ==
    LET stage   == state.currentStage
        stored  == [state EXCEPT !.stageData[stage] = Merge(@, stageData)]
        i       == IndexOf(stage)
    IN  [stored EXCEPT
           !.completedStages = PushIfMissing(@, stage),
           !.currentStage = IF i < Len(FLOW_SEQUENCE) THEN FLOW_SEQUENCE[i + 1] ELSE @]

\* advanceFlow replacing the stage's entry by the new data instead of merging
advanceFlow_replaces(state, client, stageData) ==
    LET stage   == state.currentStage
        stored  == [state EXCEPT !.stageData[stage] = stageData]
        i       == IndexOf(stage)
    IN  IF completionCheck(stage, stored, client).canProceed
        THEN [stored EXCEPT
                !.completedStages = PushIfMissing(@, stage),
                !.currentStage = IF i < Len(FLOW_SEQUENCE)
                                 THEN FLOW_SEQUENCE[i + 1] ELSE @]
        ELSE stored

\* the state after advanceFlow(clientId, stageData) on an existing flow
advanceFlow(state, client, stageData) ==
    LET stage   == state.currentStage
        stored  == [state EXCEPT !.stageData[stage] = Merge(@, stageData)]
        updatedResult == completionCheck(stage, stored, client)
        currentIndex  == IndexOf(stage)
    IN  IF updatedResult.canProceed
        THEN [stored EXCEPT
                !.completedStages = PushIfMissing(@, stage),
                !.currentStage = IF currentIndex < Len(FLOW_SEQUENCE)
                                 THEN FLOW_SEQUENCE[currentIndex + 1]
                                 ELSE @]
        ELSE stored

\* confirmSummary as a transition of its own: it confirms and puts the flow at
\* document_checklist whatever the current stage
confirmSummary_jumps(state, client) ==
    [state EXCEPT
       !.summaryConfirmed = TRUE,
       !.stageData["summary_confirmation"] = Entry1("confirmed", "true"),
       !.completedStages = PushIfMissing(@, "summary_confirmation"),
       !.currentStage = "document_checklist"]

confirmSummary(state, client) ==
    advanceFlow([state EXCEPT
                   !.summaryConfirmed = TRUE,
                   !.stageData["summary_confirmation"] = Entry1("confirmed", "true")],
                client, NoData)

setSchedulingPreferences(state, client, preferences) ==
    advanceFlow([state EXCEPT
                   !.preferredSchedule = preferences,
                   !.stageData["availability_inquiry"] =
                       [Entry1("collected", "true") EXCEPT !["preferences"] = preferences]],
                client, NoData)

setSelectedTaxPro(state, client, taxProId) ==
    advanceFlow([state EXCEPT
                   !.selectedTaxProId = taxProId,
                   !.stageData["taxpro_routing"] =
                       [Entry1("selected", "true") EXCEPT
                           !["taxProId"] = IF taxProId = UNDEFINED THEN ABSENT ELSE taxProId]],
                client, NoData)

\* syncFlowWithState without the guard on the jump to summary_review
syncFlowWithState_alwaysJumps(state, client) ==
    LET s1 == IF client.found /\ client.intakeCompleted /\ ~state.summaryConfirmed
              THEN [state EXCEPT
                      !.completedStages =
                          PushIfMissing(PushIfMissing(@, "welcome"), "intake_questions"),
                      !.currentStage = "summary_review"]
              ELSE state
        s2 == IF client.found /\ client.hasDocuments
              THEN [s1 EXCEPT !.stageData["document_checklist"] = Entry1("generated", "true")]
              ELSE s1
        s3 == IF client.found /\ client.assignedTaxPro # UNDEFINED
              THEN [s2 EXCEPT !.selectedTaxProId = client.assignedTaxPro]
              ELSE s2
    IN  IF client.found /\ client.appointmentId # UNDEFINED
        THEN [s3 EXCEPT !.completedStages = PushIfMissing(@, "appointment_scheduling")]
        ELSE s3

\* syncFlowWithState stepping to the next stage instead of to summary_review
syncFlowWithState_stepsOne(state, client) ==
    LET s1 == IF client.found /\ client.intakeCompleted /\ ~state.summaryConfirmed
              THEN [state EXCEPT
                      !.completedStages =
                          PushIfMissing(PushIfMissing(@, "welcome"), "intake_questions"),
                      !.currentStage =
                          IF @ \in {"welcome", "intake_questions"}
                          THEN FLOW_SEQUENCE[IndexOf(@) + 1] ELSE @]
              ELSE state
        s2 == IF client.found /\ client.hasDocuments
              THEN [s1 EXCEPT !.stageData["document_checklist"] = Entry1("generated", "true")]
              ELSE s1
        s3 == IF client.found /\ client.assignedTaxPro # UNDEFINED
              THEN [s2 EXCEPT !.selectedTaxProId = client.assignedTaxPro]
              ELSE s2
    IN  IF client.found /\ client.appointmentId # UNDEFINED
        THEN [s3 EXCEPT !.completedStages = PushIfMissing(@, "appointment_scheduling")]
        ELSE s3

\* syncFlowWithState that puts a flow whose client has an appointment at
\* reminders_setup
syncFlowWithState_appointmentMoves(state, client) ==
    LET s1 == IF client.found /\ client.intakeCompleted /\ ~state.summaryConfirmed
              THEN [state EXCEPT
                      !.completedStages =
                          PushIfMissing(PushIfMissing(@, "welcome"), "intake_questions"),
                      !.currentStage =
                          IF @ \in {"welcome", "intake_questions"}
                          THEN "summary_review" ELSE @]
              ELSE state
        s2 == IF client.found /\ client.hasDocuments
              THEN [s1 EXCEPT !.stageData["document_checklist"] = Entry1("generated", "true")]
              ELSE s1
        s3 == IF client.found /\ client.assignedTaxPro # UNDEFINED
              THEN [s2 EXCEPT !.selectedTaxProId = client.assignedTaxPro]
              ELSE s2
    IN  IF client.found /\ client.appointmentId # UNDEFINED
        THEN [s3 EXCEPT
                !.completedStages = PushIfMissing(@, "appointment_scheduling"),
                !.currentStage = "reminders_setup"]
        ELSE s3

\* the state after syncFlowWithState, given the existing or freshly
\* initialized state
syncFlowWithState(state, client) ==
    LET s1 == IF client.found /\ client.intakeCompleted /\ ~state.summaryConfirmed
              THEN [state EXCEPT
                      !.completedStages =
                          PushIfMissing(PushIfMissing(@, "welcome"), "intake_questions"),
                      !.currentStage =
                          IF @ \in {"welcome", "intake_questions"}
                          THEN "summary_review" ELSE @]
              ELSE state
        s2 == IF client.found /\ client.hasDocuments
              THEN [s1 EXCEPT !.stageData["document_checklist"] = Entry1("generated", "true")]
              ELSE s1
        s3 == IF client.found /\ client.assignedTaxPro # UNDEFINED
              THEN [s2 EXCEPT !.selectedTaxProId = client.assignedTaxPro]
              ELSE s2
        s4 == IF client.found /\ client.appointmentId # UNDEFINED
              THEN [s3 EXCEPT !.completedStages = PushIfMissing(@, "appointment_scheduling")]
              ELSE s3
    IN  s4

----------------------------------------------------------------------------
(* The calls.  last records the call just made and what it returned:       *)
(* isNull for a null return, status for a returned FlowActionResult.       *)

NoStatus ==
    [currentStage |-> "none", canProceed |-> FALSE, blockers |-> << >>,
     progress |-> [current |-> 0, total |-> 0, percentage |-> 0]]

\* what a routing call returned: the score and tier of the complexity
\* functions, the level and required specializations findBestTaxPro was
\* called for, its taxPro ("null" for none) and its alternates
NoRoute ==
    [score |-> -1, tier |-> "none", level |-> "none", required |-> {},
     taxPro |-> "null", alternates |-> << >>]

\* http and session are the status code and the sessionId of a request to the
\* HTTP bridge, 0 for every other call
Returned(op, c, isNull, status) ==
    [op |-> op, cid |-> c, isNull |-> isNull, status |-> status, route |-> NoRoute,
     http |-> 0, session |-> 0]

RouteReturned(op, c, route) ==
    [Returned(op, c, FALSE, NoStatus) EXCEPT !.route = route]

HasFlow(c) == c \in DOMAIN activeFlows

\* the roster db.initializeTaxPros installs; ratings in tenths, position the
\* place of the entry in the taxPros Map
DefaultTaxPros ==
    [id \in {"tp-001", "tp-002", "tp-003", "tp-004", "tp-005"} |->
       CASE id = "tp-001" ->
              [specializations |-> {"individual", "self_employment"},
               maxComplexity |-> "moderate", currentLoad |-> 3,
               maxDailyAppointments |-> 8, available |-> TRUE, rating |-> 48,
               position |-> 1]
         [] id = "tp-002" ->
              [specializations |-> {"investments", "crypto", "foreign_income"},
               maxComplexity |-> "expert", currentLoad |-> 5,
               maxDailyAppointments |-> 6, available |-> TRUE, rating |-> 49,
               position |-> 2]
         [] id = "tp-003" ->
              [specializations |-> {"small_business", "self_employment", "real_estate"},
               maxComplexity |-> "complex", currentLoad |-> 4,
               maxDailyAppointments |-> 7, available |-> TRUE, rating |-> 47,
               position |-> 3]
         [] id = "tp-004" ->
              [specializations |-> {"individual"},
               maxComplexity |-> "simple", currentLoad |-> 6,
               maxDailyAppointments |-> 12, available |-> TRUE, rating |-> 45,
               position |-> 4]
         [] id = "tp-005" ->
              [specializations |-> {"estate_planning", "foreign_income",
                                    "audit_representation"},
               maxComplexity |-> "expert", currentLoad |-> 2,
               maxDailyAppointments |-> 4, available |-> TRUE, rating |-> 50,
               position |-> 5]]

Init ==
    /\ activeFlows = << >>
    /\ clients = << >>
    /\ last = Returned("init", "none", FALSE, NoStatus)
    /\ walk = [c \in Clients |-> 0]
    /\ sseSessions = {}
    /\ uuids = 0
    /\ taxPros = DefaultTaxPros

\* db.createClient, called by the intake service with a fresh client id
CreateClient(c) ==
    /\ c \notin DOMAIN clients
    /\ clients' = MapSet(clients, c, NewClient)
    /\ last' = Returned("createClient", c, FALSE, NoStatus)
    /\ UNCHANGED <<activeFlows, walk, taxPros, sse>>

\* db.updateClient(id, updates) with the updates the services make
ClientUpdates(client) ==
    { [client EXCEPT !.intakeCompleted = TRUE],
      [client EXCEPT !.hasDocuments = TRUE] }
    \cup { [client EXCEPT !.assignedTaxPro = t] : t \in TaxProIds }
    \cup { [client EXCEPT !.appointmentId = a] : a \in AppointmentIds }

UpdateClient(c) ==
    /\ c \in DOMAIN clients
    /\ \E updated \in ClientUpdates(clients[c]) :
          /\ updated # clients[c]
          /\ clients' = [clients EXCEPT ![c] = updated]
    /\ last' = Returned("updateClient", c, FALSE, NoStatus)
    /\ UNCHANGED <<activeFlows, walk, taxPros, sse>>

\* db.updateClient(id, {intakeCompleted: true}), the one update NextPair makes
CompleteIntake(c) ==
    /\ c \in DOMAIN clients
    /\ ~clients[c].intakeCompleted
    /\ clients' = [clients EXCEPT ![c].intakeCompleted = TRUE]
    /\ last' = Returned("updateClient", c, FALSE, NoStatus)
    /\ UNCHANGED <<activeFlows, walk, taxPros, sse>>

\* getOrCreateFlowState initializing the flow on every call
GetOrCreateFlowState_resets(c, sessionId) ==
    /\ activeFlows' = MapSet(activeFlows, c, initializeFlow(c, sessionId))
    /\ last' = Returned("getOrCreateFlowState", c, FALSE, NoStatus)
    /\ UNCHANGED <<clients, walk, taxPros, sse>>

GetOrCreateFlowState(c, sessionId) ==
    /\ activeFlows' = IF HasFlow(c) THEN activeFlows
                      ELSE MapSet(activeFlows, c, initializeFlow(c, sessionId))
    /\ last' = Returned("getOrCreateFlowState", c, FALSE, NoStatus)
    /\ UNCHANGED <<clients, walk, taxPros, sse>>

\* the call creating a flow state where none exists instead of returning null
FlowCall_creates(op, c, newState) ==
    /\ IF HasFlow(c)
       THEN /\ activeFlows' = [activeFlows EXCEPT ![c] = newState]
            /\ last' = Returned(op, c, FALSE, getFlowStatus(newState, getClient(c)))
       ELSE /\ activeFlows' = MapSet(activeFlows, c, initializeFlow(c, ""))
            /\ last' = Returned(op, c, TRUE, NoStatus)
    /\ UNCHANGED <<clients, walk, taxPros, sse>>

\* a call of advanceFlow or of one of its wrappers: null without a flow,
\* otherwise the new state is stored and getFlowStatus of it returned
FlowCall(op, c, newState) ==
    /\ IF HasFlow(c)
       THEN /\ activeFlows' = [activeFlows EXCEPT ![c] = newState]
            /\ last' = Returned(op, c, FALSE, getFlowStatus(newState, getClient(c)))
       ELSE /\ activeFlows' = activeFlows
            /\ last' = Returned(op, c, TRUE, NoStatus)
    /\ UNCHANGED <<clients, walk, taxPros, sse>>

AdvanceFlow(c, stageData) ==
    /\ HasFlow(c) =>
          stageData \in {NoData} \cup StageInputs(activeFlows[c].currentStage)
    /\ FlowCall("advanceFlow", c,
                advanceFlow(activeFlows[c], getClient(c), stageData))

ConfirmSummary(c) ==
    FlowCall("confirmSummary", c, confirmSummary(activeFlows[c], getClient(c)))

SetSchedulingPreferences(c, preferences) ==
    FlowCall("setSchedulingPreferences", c,
             setSchedulingPreferences(activeFlows[c], getClient(c), preferences))

SetSelectedTaxPro(c, taxProId) ==
    FlowCall("setSelectedTaxPro", c,
             setSelectedTaxPro(activeFlows[c], getClient(c), taxProId))

\* syncFlowWithState reconciling every stored flow, not only the client's
SyncFlowWithState_all(c, sessionId) ==
    /\ activeFlows' =
          [x \in (DOMAIN activeFlows) \cup {c} |->
              syncFlowWithState(IF HasFlow(x) THEN activeFlows[x]
                                ELSE initializeFlow(x, sessionId),
                                getClient(x))]
    /\ last' = Returned("syncFlowWithState", c, FALSE, NoStatus)
    /\ UNCHANGED <<clients, walk, taxPros, sse>>

\* syncFlowWithState that gives up, storing nothing, when the client store has
\* no record of the id
SyncFlowWithState_needsClient(c, sessionId) ==
    /\ activeFlows' =
          IF c \in DOMAIN clients
          THEN MapSet(activeFlows, c,
                      syncFlowWithState(IF HasFlow(c) THEN activeFlows[c]
                                        ELSE initializeFlow(c, sessionId),
                                        getClient(c)))
          ELSE activeFlows
    /\ last' = Returned("syncFlowWithState", c, c \notin DOMAIN clients, NoStatus)
    /\ UNCHANGED <<clients, walk, taxPros, sse>>

SyncFlowWithState(c, sessionId) ==
    /\ activeFlows' =
          MapSet(activeFlows, c,
                 syncFlowWithState(IF HasFlow(c) THEN activeFlows[c]
                                   ELSE initializeFlow(c, sessionId),
                                   getClient(c)))
    /\ last' = Returned("syncFlowWithState", c, FALSE, NoStatus)
    /\ UNCHANGED <<clients, walk, taxPros, sse>>

----------------------------------------------------------------------------
(* The documented walkthrough: the tool calls of the README's conversation *)
(* flow example, in order                                                  *)

WalkOrder ==
    <<"start_intake", "process_intake_response", "get_client_summary",
      "confirm_intake_summary", "generate_document_checklist",
      "set_scheduling_preferences", "route_to_tax_pro", "create_appointment">>

\* walk after client c made tool call op: one further when op is the next
\* call of the walkthrough and did what the walkthrough expects of it
Walked(c, op, ok) ==
    IF ok /\ walk[c] < Len(WalkOrder) /\ WalkOrder[walk[c] + 1] = op
    THEN [walk EXCEPT ![c] = @ + 1]
    ELSE walk

----------------------------------------------------------------------------
(* Complexity tiers *)

\* the top of the complexity score range
MaxScore == 100

Levels == <<"simple", "moderate", "complex", "expert">>

LevelOrdinal(level) == CHOOSE i \in 1..Len(Levels) : Levels[i] = level

\* routing.getComplexityLevel: simple [0,20], moderate [21,50],
\* complex [51,80], expert [81,100]
getComplexityLevel(score) ==
    IF score <= 20 THEN "simple"
    ELSE IF score <= 50 THEN "moderate"
    ELSE IF score <= 80 THEN "complex"
    ELSE "expert"

\* determineMaxComplexity with the expert threshold one too high
determineMaxComplexity_late(minLevel, maxLevel) ==
    IF maxLevel >= 82 THEN "expert"
    ELSE IF maxLevel >= 51 THEN "complex"
    ELSE IF maxLevel >= 21 THEN "moderate"
    ELSE "simple"

\* taxproLoader.determineMaxComplexity
determineMaxComplexity(minLevel, maxLevel) ==
    IF maxLevel >= 81 THEN "expert"
    ELSE IF maxLevel >= 51 THEN "complex"
    ELSE IF maxLevel >= 21 THEN "moderate"
    ELSE "simple"

GetComplexityLevel(score) ==
    /\ last' = RouteReturned("getComplexityLevel", "none",
                             [NoRoute EXCEPT !.score = score,
                                             !.tier = getComplexityLevel(score)])
    /\ UNCHANGED <<activeFlows, clients, walk, taxPros, sse>>

DetermineMaxComplexity(minLevel, maxLevel) ==
    /\ last' = RouteReturned("determineMaxComplexity", "none",
                             [NoRoute EXCEPT
                                 !.score = maxLevel,
                                 !.tier = determineMaxComplexity(minLevel, maxLevel)])
    /\ UNCHANGED <<activeFlows, clients, walk, taxPros, sse>>

----------------------------------------------------------------------------
(* Routing engine *)

\* getAvailableTaxPros without the test of the available flag
getAvailableTaxPros_ignoresFlag(pool) ==
    { id \in DOMAIN pool : pool[id].currentLoad < pool[id].maxDailyAppointments }

\* getAvailableTaxPros that still offers a professional at capacity
getAvailableTaxPros_atCapacity(pool) ==
    { id \in DOMAIN pool :
         pool[id].available /\ pool[id].currentLoad <= pool[id].maxDailyAppointments }

\* Database.getAvailableTaxPros
getAvailableTaxPros(pool) ==
    { id \in DOMAIN pool :
         pool[id].available /\ pool[id].currentLoad < pool[id].maxDailyAppointments }

\* updateTaxProLoad applied to every professional of the pool
updateTaxProLoad_everyone(pool, id, change) ==
    [x \in DOMAIN pool |->
        [pool[x] EXCEPT !.currentLoad = IF @ + change > 0 THEN @ + change ELSE 0]]

\* Database.updateTaxProLoad
updateTaxProLoad(pool, id, change) ==
    IF id \in DOMAIN pool
    THEN [pool EXCEPT ![id].currentLoad =
              IF @ + change > 0 THEN @ + change ELSE 0]
    ELSE pool

\* the candidate pool with any overlap of the specializations accepted
Candidates_anyOverlap(level, required, pool) ==
    { id \in getAvailableTaxPros(pool) :
         /\ LevelOrdinal(pool[id].maxComplexity) >= LevelOrdinal(level)
         /\ required \cap pool[id].specializations # {} }

\* the candidate pool of findBestTaxPro for a complexity level and a set of
\* required specializations
Candidates(level, required, pool) ==
    { id \in getAvailableTaxPros(pool) :
         /\ LevelOrdinal(pool[id].maxComplexity) >= LevelOrdinal(level)
         /\ required \subseteq pool[id].specializations }

\* the order of the roster ids, the last tie-break of the ranking
TaxProOrder == <<"tp-001", "tp-002", "tp-003", "tp-004", "tp-005">>

IdIndex(id) == CHOOSE i \in 1..Len(TaxProOrder) : TaxProOrder[i] = id

\* the ranking without the tie-break by id
RanksBefore_noId(a, b, pool) ==
    \/ pool[a].rating > pool[b].rating
    \/ /\ pool[a].rating = pool[b].rating
       /\ pool[a].currentLoad < pool[b].currentLoad

\* a ranks before b: higher rating, then lower load, then id
RanksBefore(a, b, pool) ==
    \/ pool[a].rating > pool[b].rating
    \/ /\ pool[a].rating = pool[b].rating
       /\ pool[a].currentLoad < pool[b].currentLoad
    \/ /\ pool[a].rating = pool[b].rating
       /\ pool[a].currentLoad = pool[b].currentLoad
       /\ IdIndex(a) < IdIndex(b)

\* the professionals of ids in the iteration order of the taxPros Map
InMapOrder(ids, pool) ==
    [i \in 1..Cardinality(ids) |->
       CHOOSE a \in ids :
          Cardinality({ b \in ids : pool[b].position < pool[a].position }) = i - 1]

\* x put into a ranked list, behind every entry it does not rank before
RECURSIVE InsertRanked(_, _, _)
InsertRanked(ranked, x, pool) ==
    IF ranked = << >> THEN << x >>
    ELSE IF RanksBefore(x, Head(ranked), pool) THEN << x >> \o ranked
    ELSE << Head(ranked) >> \o InsertRanked(Tail(ranked), x, pool)

\* Array.prototype.sort with the ranking as comparator: a stable sort
RECURSIVE SortRanked(_, _)
SortRanked(seq, pool) ==
    IF seq = << >> THEN << >>
    ELSE InsertRanked(SortRanked(SubSeq(seq, 1, Len(seq) - 1), pool),
                      seq[Len(seq)], pool)

\* routing.findBestTaxPro: the top candidate and up to two alternates
findBestTaxPro(level, required, pool) ==
    LET candidates == Candidates(level, required, pool)
        ranked == SortRanked(InMapOrder(candidates, pool), pool)
    IN  [NoRoute EXCEPT
           !.level = level,
           !.required = required,
           !.taxPro = IF candidates = {} THEN "null" ELSE ranked[1],
           !.alternates = IF Cardinality(candidates) <= 1 THEN << >>
                          ELSE IF Cardinality(candidates) = 2 THEN << ranked[2] >>
                          ELSE << ranked[2], ranked[3] >>]

\* the specialization sets a client is routed with
RequiredInputs ==
    {{"individual"}, {"self_employment"}, {"crypto"}, {"foreign_income"},
     {"self_employment", "real_estate"}}

\* roster entries whose available flag a roster source may have cleared
UnavailableInputs == {"tp-001", "tp-005"}

FindBestTaxPro(level, required) ==
    /\ last' = RouteReturned("findBestTaxPro", "none",
                             findBestTaxPro(level, required, taxPros))
    /\ UNCHANGED <<activeFlows, clients, walk, taxPros, sse>>

\* route_to_tax_pro calling setSelectedTaxPro whatever the result
RouteToTaxPro_alwaysSelects(c, level, required) ==
    \E route \in {findBestTaxPro(level, required, taxPros)} :
    LET success == c \in DOMAIN clients /\ route.taxPro # "null"
        store == IF success
                 THEN [clients EXCEPT ![c].assignedTaxPro = route.taxPro]
                 ELSE clients
        state == IF HasFlow(c)
                 THEN setSelectedTaxPro(activeFlows[c], getClient(c),
                                        IF success THEN route.taxPro ELSE UNDEFINED)
                 ELSE initializeFlow(c, "")
    IN  /\ clients' = store
        /\ taxPros' = IF success THEN updateTaxProLoad(taxPros, route.taxPro, 1)
                      ELSE taxPros
        /\ activeFlows' = IF HasFlow(c) THEN [activeFlows EXCEPT ![c] = state]
                          ELSE activeFlows
        /\ last' = [RouteReturned("route_to_tax_pro", c,
                                  IF c \in DOMAIN clients THEN route ELSE NoRoute)
                      EXCEPT !.isNull = ~success]
        /\ walk' = Walked(c, "route_to_tax_pro", success)
        /\ UNCHANGED sse

\* route_to_tax_pro: routeClientToTaxPro fails for an unknown client or
\* without a candidate; on success it stamps assignedTaxPro on the client and
\* adds one to the professional's load, and the handler calls
\* setSelectedTaxPro
RouteToTaxPro(c, level, required) ==
    \E route \in {findBestTaxPro(level, required, taxPros)} :
    LET success == c \in DOMAIN clients /\ route.taxPro # "null"
        store == IF success
                 THEN [clients EXCEPT ![c].assignedTaxPro = route.taxPro]
                 ELSE clients
        state == IF success /\ HasFlow(c)
                 THEN setSelectedTaxPro(activeFlows[c], store[c], route.taxPro)
                 ELSE IF HasFlow(c) THEN activeFlows[c] ELSE initializeFlow(c, "")
    IN  /\ clients' = store
        /\ taxPros' = IF success THEN updateTaxProLoad(taxPros, route.taxPro, 1)
                      ELSE taxPros
        /\ activeFlows' = IF HasFlow(c) THEN [activeFlows EXCEPT ![c] = state]
                          ELSE activeFlows
        /\ last' = [RouteReturned("route_to_tax_pro", c,
                                  IF c \in DOMAIN clients THEN route ELSE NoRoute)
                      EXCEPT !.isNull = ~success,
                             !.status = IF HasFlow(c)
                                        THEN getFlowStatus(
                                                state,
                                                IF c \in DOMAIN store
                                                THEN store[c] ELSE NoClient)
                                        ELSE NoStatus]
        /\ walk' = Walked(c, "route_to_tax_pro", success)
        /\ UNCHANGED sse

\* the roster with the available flag cleared on any of UnavailableInputs
InitRoute ==
    /\ activeFlows = << >>
    /\ clients = << >>
    /\ last = Returned("init", "none", FALSE, NoStatus)
    /\ walk = [c \in Clients |-> 0]
    /\ sseSessions = {}
    /\ uuids = 0
    /\ \E off \in SUBSET UnavailableInputs :
          taxPros = [id \in DOMAIN DefaultTaxPros |->
                       [DefaultTaxPros[id] EXCEPT !.available = id \notin off]]

\* Routing calls for every level and required set, on every pool the
\* assignments lead to.
NextRoute ==
    \/ \E c \in MainClients : CreateClient(c)
    \/ \E level \in ToSet(Levels), required \in RequiredInputs :
          FindBestTaxPro(level, required)
    \/ \E c \in MainClients, level \in ToSet(Levels), required \in RequiredInputs :
          RouteToTaxPro(c, level, required)

SpecRoute == InitRoute /\ [][NextRoute]_vars

----------------------------------------------------------------------------
(* A roster loaded from the CSV file *)

\* appointments_per_day of the rows of the roster file
MaxDaily == 2

RosterIds == {"tp-001", "tp-002", "tp-003"}

\* the orders in which the rows can stand in the file
RowOrders ==
    { order \in [RosterIds -> 1..Cardinality(RosterIds)] :
         \A a, b \in RosterIds : a # b => order[a] # order[b] }

\* loadTaxProsFromCSV and initializeTaxPros: one entry per active row, in
\* row order, with no load
loadTaxProsFromCSV(order, ratings, maxLevels) ==
    [id \in RosterIds |->
       [specializations |-> {"individual"},
        maxComplexity |-> determineMaxComplexity(0, maxLevels[id]),
        currentLoad |-> 0,
        maxDailyAppointments |-> MaxDaily,
        available |-> TRUE,
        rating |-> ratings[id],
        position |-> order[id]]]

InitRoster ==
    /\ activeFlows = << >>
    /\ clients = << >>
    /\ last = Returned("init", "none", FALSE, NoStatus)
    /\ walk = [c \in Clients |-> 0]
    /\ sseSessions = {}
    /\ uuids = 0
    /\ \E order \in RowOrders, ratings \in [RosterIds -> {45, 48}],
          maxLevels \in [RosterIds -> {50, MaxScore}] :
          taxPros = loadTaxProsFromCSV(order, ratings, maxLevels)

\* Routing calls on the loaded rosters and on the pools the assignments lead
\* to.
NextRoster ==
    \/ \E c \in MainClients : CreateClient(c)
    \/ \E level \in {"simple", "complex"} : FindBestTaxPro(level, {"individual"})
    \/ \E c \in MainClients, level \in {"simple", "complex"} :
          RouteToTaxPro(c, level, {"individual"})

SpecRoster == InitRoster /\ [][NextRoster]_vars

\* The complexity functions applied to every score of the range.
NextLevels ==
    \/ \E score \in 0..MaxScore : GetComplexityLevel(score)
    \/ \E minLevel \in {0, 21}, maxLevel \in 0..MaxScore :
          DetermineMaxComplexity(minLevel, maxLevel)

SpecLevels == Init /\ [][NextLevels]_vars

----------------------------------------------------------------------------
(* Tool handlers of the MCP server *)

\* startIntakeSession(clientId): the client store after it returned the
\* existing client or created one
startIntakeSession(c) ==
    IF c \in DOMAIN clients THEN clients ELSE MapSet(clients, c, NewClient)

\* the flow state a handler gets from getOrCreateFlowState(c, sessionId)
flowOrNew(c, sessionId) ==
    IF HasFlow(c) THEN activeFlows[c] ELSE initializeFlow(c, sessionId)

\* start_intake: startIntakeSession, getOrCreateFlowState with the session's
\* id, advanceFlow({started: true}).  Calls are drawn for a client whose flow
\* is absent or at welcome, the stage whose data the handler writes.
StartIntake(c, sessionId) ==
    LET store == startIntakeSession(c)
        state == advanceFlow(flowOrNew(c, sessionId), store[c], Entry1("started", "true"))
    IN  /\ HasFlow(c) => activeFlows[c].currentStage = "welcome"
        /\ clients' = store
        /\ activeFlows' = MapSet(activeFlows, c, state)
        /\ last' = Returned("start_intake", c, FALSE, getFlowStatus(state, store[c]))
        /\ walk' = Walked(c, "start_intake", TRUE)
        /\ UNCHANGED sse
        /\ UNCHANGED taxPros

\* what a handler stores for advanceFlow(c, stageData): nothing without a flow
advanced(c, client, stageData) ==
    IF HasFlow(c)
    THEN [activeFlows EXCEPT ![c] = advanceFlow(activeFlows[c], client, stageData)]
    ELSE activeFlows

\* getFlowStatus(c) on a flow map, with the null result
statusOf(op, c, flows, client) ==
    IF c \in DOMAIN flows
    THEN Returned(op, c, FALSE, getFlowStatus(flows[c], client))
    ELSE Returned(op, c, TRUE, NoStatus)

\* process_intake_response for the session of client c: when the answer
\* completes the intake, processIntakeResponse sets intakeCompleted and the
\* handler calls getOrCreateFlowState and advanceFlow({completed: true}).
\* Calls are drawn for a client whose flow is absent, at welcome or at
\* intake_questions: the session answers its questions before the later stages.
ProcessIntakeResponse(c, sessionId, completes) ==
    LET store == [clients EXCEPT ![c].intakeCompleted = TRUE]
        state == advanceFlow(flowOrNew(c, sessionId), store[c],
                             Entry1("completed", "true"))
    IN  /\ c \in DOMAIN clients
        /\ HasFlow(c) =>
              activeFlows[c].currentStage \in {"welcome", "intake_questions"}
        /\ IF completes
           THEN /\ clients' = store
                /\ activeFlows' = MapSet(activeFlows, c, state)
                /\ last' = Returned("process_intake_response", c, FALSE,
                                    getFlowStatus(state, store[c]))
           ELSE /\ UNCHANGED <<clients, activeFlows>>
                /\ last' = Returned("process_intake_response", c, TRUE, NoStatus)
        /\ walk' = Walked(c, "process_intake_response", completes)
        /\ UNCHANGED sse
        /\ UNCHANGED taxPros

\* get_client_summary that records the summary as shown at every stage
GetClientSummary_anyStage(c) ==
    LET flows == advanced(c, getClient(c), Entry1("shown", "true"))
    IN  /\ activeFlows' = flows
        /\ last' = statusOf("get_client_summary", c, flows, getClient(c))
        /\ walk' = Walked(c, "get_client_summary", TRUE)
        /\ UNCHANGED sse
        /\ UNCHANGED <<clients, taxPros>>

\* get_client_summary: advanceFlow({shown: true}) only for a flow at
\* summary_review
GetClientSummary(c) ==
    LET flows == IF HasFlow(c) /\ activeFlows[c].currentStage = "summary_review"
                 THEN advanced(c, getClient(c), Entry1("shown", "true"))
                 ELSE activeFlows
    IN  /\ activeFlows' = flows
        /\ last' = statusOf("get_client_summary", c, flows, getClient(c))
        /\ walk' = Walked(c, "get_client_summary", TRUE)
        /\ UNCHANGED sse
        /\ UNCHANGED <<clients, taxPros>>

\* confirm_intake_summary: confirmSummary(c)
ConfirmIntakeSummary(c) ==
    LET flows == IF HasFlow(c)
                 THEN [activeFlows EXCEPT
                          ![c] = confirmSummary(activeFlows[c], getClient(c))]
                 ELSE activeFlows
    IN  /\ activeFlows' = flows
        /\ last' = statusOf("confirm_intake_summary", c, flows, getClient(c))
        /\ walk' = Walked(c, "confirm_intake_summary", TRUE)
        /\ UNCHANGED sse
        /\ UNCHANGED <<clients, taxPros>>

\* generate_document_checklist: generateDocumentChecklist leaves the client
\* with pending documents, then advanceFlow({generated: true, documentCount})
GenerateDocumentChecklist(c) ==
    LET store == [clients EXCEPT ![c].hasDocuments = TRUE]
        flows == advanced(c, store[c], Entry1("generated", "true"))
    IN  /\ c \in DOMAIN clients
        /\ clients' = store
        /\ activeFlows' = flows
        /\ last' = statusOf("generate_document_checklist", c, flows, store[c])
        /\ walk' = Walked(c, "generate_document_checklist", TRUE)
        /\ UNCHANGED sse
        /\ UNCHANGED taxPros

\* set_scheduling_preferences: setSchedulingPreferences(c, preferences)
SetSchedulingPreferencesTool(c, preferences) ==
    LET flows == IF HasFlow(c)
                 THEN [activeFlows EXCEPT
                          ![c] = setSchedulingPreferences(activeFlows[c], getClient(c),
                                                          preferences)]
                 ELSE activeFlows
    IN  /\ activeFlows' = flows
        /\ last' = statusOf("set_scheduling_preferences", c, flows, getClient(c))
        /\ walk' = Walked(c, "set_scheduling_preferences", TRUE)
        /\ UNCHANGED sse
        /\ UNCHANGED <<clients, taxPros>>

\* create_appointment with a single advanceFlow call
CreateAppointment_once(c, taxProId, appointmentId) ==
    LET store == [clients EXCEPT ![c].appointmentId = appointmentId]
        first == advanced(c, store[c], Entry1("created", "true"))
    IN  /\ c \in DOMAIN clients
        /\ clients' = store
        /\ activeFlows' = first
        /\ last' = statusOf("create_appointment", c, first, store[c])
        /\ walk' = Walked(c, "create_appointment", TRUE)
        /\ UNCHANGED sse
        /\ taxPros' = updateTaxProLoad(taxPros, taxProId, 1)

\* create_appointment: createAppointment stamps appointmentId on the client
\* and adds the appointment to the load of the professional it was given,
\* the reminders are scheduled, then advanceFlow({created: true,
\* appointmentId}) and advanceFlow({created: true, reminderCount})
CreateAppointment(c, taxProId, appointmentId) ==
    /\ c \in DOMAIN clients
    /\ \E store \in {[clients EXCEPT ![c].appointmentId = appointmentId]} :
       \E first \in {advanced(c, store[c], Entry1("created", "true"))} :
       LET second == IF HasFlow(c)
                     THEN [first EXCEPT
                              ![c] = advanceFlow(first[c], store[c],
                                                 Entry1("created", "true"))]
                     ELSE first
       IN  /\ clients' = store
           /\ activeFlows' = second
           /\ last' = statusOf("create_appointment", c, second, store[c])
           /\ walk' = Walked(c, "create_appointment", TRUE)
           /\ UNCHANGED sse
           /\ taxPros' = updateTaxProLoad(taxPros, taxProId, 1)

\* the most appointments a professional is given in the booking runs
LoadCap == 7

\* the professionals the booking runs route to and book
BookingTaxProIds == {"tp-002", "tp-005"}

\* create_appointment for a professional whose load is below LoadCap
BookAppointment(c, taxProId, appointmentId) ==
    /\ taxPros[taxProId].currentLoad < LoadCap
    /\ CreateAppointment(c, taxProId, appointmentId)

\* Routing and booking of two clients that need an expert: the calls run to
\* completion one after the other, in any order.
NextBooking ==
    \/ \E c \in Clients : CreateClient(c)
    \/ \E c \in Clients, sid \in SessionIds \ {""} : StartIntake(c, sid)
    \/ \E required \in {{"crypto"}, {"foreign_income"}} :
          FindBestTaxPro("expert", required)
    \/ \E c \in Clients, required \in {{"crypto"}, {"foreign_income"}} :
          RouteToTaxPro(c, "expert", required)
    \/ \E c \in Clients, t \in BookingTaxProIds, a \in AppointmentIds :
          BookAppointment(c, t, a)

SpecBooking == Init /\ [][NextBooking]_vars

\* the read-side functions
ReadOps == {"getFlowState", "getFlowStatus", "getFlowProgressDisplay",
            "getNextActionInstructions"}

\* a read that stores a fresh flow state when there is none
ReadFlow_creates(op, c) ==
    /\ activeFlows' = IF HasFlow(c) THEN activeFlows
                      ELSE MapSet(activeFlows, c, initializeFlow(c, ""))
    /\ last' = statusOf(op, c, activeFlows, getClient(c))
    /\ UNCHANGED <<clients, walk, taxPros, sse>>

\* getFlowState, getFlowStatus, getFlowProgressDisplay or
\* getNextActionInstructions for client c
ReadFlow(op, c) ==
    /\ last' = statusOf(op, c, activeFlows, getClient(c))
    /\ UNCHANGED <<activeFlows, clients, walk, taxPros, sse>>

----------------------------------------------------------------------------
(* The walkthrough of each client: its tool calls in the documented order, *)
(* interleaved with the other client's and with reads                      *)

WalkStartIntake(c, sessionId) ==
    walk[c] = 0 /\ StartIntake(c, sessionId)

WalkProcessIntakeResponse(c, sessionId, completes) ==
    walk[c] = 1 /\ ProcessIntakeResponse(c, sessionId, completes)

WalkGetClientSummary(c) ==
    walk[c] = 2 /\ GetClientSummary(c)

WalkConfirmIntakeSummary(c) ==
    walk[c] = 3 /\ ConfirmIntakeSummary(c)

WalkGenerateDocumentChecklist(c) ==
    walk[c] = 4 /\ GenerateDocumentChecklist(c)

WalkSetSchedulingPreferences(c, preferences) ==
    walk[c] = 5 /\ SetSchedulingPreferencesTool(c, preferences)

WalkRouteToTaxPro(c, level, required) ==
    walk[c] = 6 /\ RouteToTaxPro(c, level, required)

WalkCreateAppointment(c, appointmentId) ==
    walk[c] = 7 /\ CreateAppointment(c, clients[c].assignedTaxPro, appointmentId)

WalkStep(c) ==
    \/ \E sid \in SessionIds \ {""} : WalkStartIntake(c, sid)
    \/ \E sid \in SessionIds \ {""}, completes \in BOOLEAN :
          WalkProcessIntakeResponse(c, sid, completes)
    \/ WalkGetClientSummary(c)
    \/ WalkConfirmIntakeSummary(c)
    \/ WalkGenerateDocumentChecklist(c)
    \/ \E p \in Preferences : WalkSetSchedulingPreferences(c, p)
    \/ \E level \in {"simple", "expert"} :
          WalkRouteToTaxPro(c, level, {"individual"})
    \/ \E a \in AppointmentIds : WalkCreateAppointment(c, a)

\* a call of the walkthrough that takes the client one call further
WalkProgress(c) == WalkStep(c) /\ walk'[c] = walk[c] + 1

NextWalk ==
    \/ \E c \in Clients : WalkStep(c)
    \/ \E c \in Clients, op \in ReadOps : ReadFlow(op, c)

\* every client goes on making the calls of the walkthrough until each has
\* done what the walkthrough expects
SpecWalk ==
    Init /\ [][NextWalk]_vars /\ \A c \in Clients : WF_vars(WalkProgress(c))

Next ==
    \/ \E c \in MainClients, sid \in SessionIds \ {""} : StartIntake(c, sid)
    \/ \E c \in MainClients, sid \in SessionIds \ {""}, completes \in BOOLEAN :
          ProcessIntakeResponse(c, sid, completes)
    \/ \E c \in MainClients : GetClientSummary(c)
    \/ \E c \in MainClients : CreateClient(c)
    \/ \E c \in MainClients : UpdateClient(c)
    \/ \E c \in MainClients, sid \in SessionIds : GetOrCreateFlowState(c, sid)
    \/ \E c \in MainClients, d \in DataInputs : AdvanceFlow(c, d)
    \/ \E c \in MainClients : ConfirmSummary(c)
    \/ \E c \in MainClients, p \in Preferences : SetSchedulingPreferences(c, p)
    \/ \E c \in MainClients, t \in TaxProIds \cup {UNDEFINED} : SetSelectedTaxPro(c, t)
    \/ \E c \in MainClients, sid \in SessionIds : SyncFlowWithState(c, sid)

Spec == Init /\ [][Next]_vars

\* The flow calls of all client ids interleaved, the first client with a
\* stored profile whose intake may complete.
NextPair ==
    \/ \E c \in MainClients : CreateClient(c)
    \/ \E c \in MainClients : CompleteIntake(c)
    \/ \E c \in Clients, sid \in SessionIds : GetOrCreateFlowState(c, sid)
    \/ \E c \in Clients, d \in {NoData, Entry1("started", "true")} : AdvanceFlow(c, d)
    \/ \E c \in Clients : ConfirmSummary(c)
    \/ \E c \in Clients, p \in Preferences : SetSchedulingPreferences(c, p)
    \/ \E c \in Clients, t \in TaxProIds : SetSelectedTaxPro(c, t)
    \/ \E c \in Clients, sid \in SessionIds : SyncFlowWithState(c, sid)
    \/ \E c \in Clients : RouteToTaxPro(c, "expert", {"individual"})

SpecPair == Init /\ [][NextPair]_vars

----------------------------------------------------------------------------
(* Properties *)

StagesBefore(stage) == { FLOW_SEQUENCE[i] : i \in 1..(IndexOf(stage) - 1) }

FlowOps == {"advanceFlow", "confirmSummary", "setSchedulingPreferences",
            "setSelectedTaxPro"}

\* the call just made (in the primed state) was op for client c, which had a flow
Called(ops, c) == last'.op \in ops /\ last'.cid = c /\ HasFlow(c)

\* C1: completedStages of every flow equals exactly the set of stages
\* strictly before currentStage in FLOW_SEQUENCE.
C1_CompletedIsPrefix ==
    \A c \in DOMAIN activeFlows :
        ToSet(activeFlows[c].completedStages) = StagesBefore(activeFlows[c].currentStage)

\* C2: one advanceFlow call (direct or through a wrapper) moves currentStage
\* forward by at most one position.
C2_AtMostOneStage ==
    [][\A c \in Clients :
          Called(FlowOps, c) =>
              IndexOf(activeFlows'[c].currentStage)
                  <= IndexOf(activeFlows[c].currentStage) + 1]_vars

\* advanceFlow has just moved the flow onto a stage whose predicate already
\* held: the returned status is for a later stage and says canProceed
C2_Witness ==
    /\ last.op = "advanceFlow" /\ ~last.isNull
    /\ last.status.canProceed
    /\ last.status.currentStage \in Stages \ {"welcome", "complete"}

\* C3: the position of currentStage never decreases, a flow is never removed,
\* and once currentStage is complete it stays complete.
C3_NeverBackward ==
    [][\A c \in DOMAIN activeFlows :
          /\ c \in DOMAIN activeFlows'
          /\ IndexOf(activeFlows'[c].currentStage) >= IndexOf(activeFlows[c].currentStage)
          /\ activeFlows[c].currentStage = "complete"
                => activeFlows'[c].currentStage = "complete"]_vars

\* syncFlowWithState has run on a flow that is at complete and on which
\* advanceFlow had already been called at complete; the flow is still there
C3_Witness ==
    /\ last.op = "syncFlowWithState"
    /\ HasFlow(last.cid)
    /\ activeFlows[last.cid].currentStage = "complete"
    /\ Includes(activeFlows[last.cid].completedStages, "complete")

\* C4: a call moves currentStage off or past a stage only if that stage's
\* completion predicate holds at that moment.
C4_NoStageSkipped ==
    [][\A c \in DOMAIN activeFlows' :
          LET from == IF HasFlow(c) THEN IndexOf(activeFlows[c].currentStage) ELSE 1
              to   == IndexOf(activeFlows'[c].currentStage)
          IN  \A k \in from..(to - 1) :
                 completionCheck(FLOW_SEQUENCE[k], activeFlows'[c], getClient(c)).canProceed]_vars

\* C5: a second syncFlowWithState right after a first, the client store
\* unchanged in between, leaves the flow state as the first call left it.
C5_SyncIdempotent ==
    [][\A c \in Clients :
          (last.op = "syncFlowWithState" /\ last.cid = c
             /\ last'.op = "syncFlowWithState" /\ last'.cid = c)
          => activeFlows'[c] = activeFlows[c]]_vars

\* syncFlowWithState has run on a client with a completed intake, a
\* checklist, an assigned tax professional and an appointment, and has
\* recorded all four
C5_Witness ==
    /\ last.op = "syncFlowWithState"
    /\ HasFlow(last.cid)
    /\ LET f == activeFlows[last.cid]
           cl == getClient(last.cid)
       IN  /\ cl.found /\ cl.intakeCompleted /\ cl.hasDocuments
           /\ cl.assignedTaxPro # UNDEFINED /\ cl.appointmentId # UNDEFINED
           /\ f.currentStage = "summary_review"
           /\ f.selectedTaxProId = cl.assignedTaxPro
           /\ f.stageData["document_checklist"]["generated"] = "true"
           /\ Includes(f.completedStages, "appointment_scheduling")

\* C6: after syncFlowWithState for a client whose intake is completed the
\* flow is past the intake stages, with both of them completed.
C6_SyncLeavesIntake ==
    (last.op = "syncFlowWithState" /\ getClient(last.cid).found
        /\ getClient(last.cid).intakeCompleted)
    => /\ activeFlows[last.cid].currentStage \notin {"welcome", "intake_questions"}
       /\ {"welcome", "intake_questions"} \subseteq ToSet(activeFlows[last.cid].completedStages)

\* C7: on a fresh flow with a started session advanceFlow({started:true})
\* moves to intake_questions; advanceFlow without data at intake_questions,
\* the intake not completed, leaves currentStage and completedStages alone.
C7_StartThenWait ==
    [][\A c \in Clients :
          Called({"advanceFlow"}, c) =>
             /\ ( /\ \E sid \in SessionIds \ {""} : activeFlows[c] = initializeFlow(c, sid)
                  /\ activeFlows'[c].stageData["welcome"] = Entry1("started", "true") )
                => /\ activeFlows'[c].currentStage = "intake_questions"
                   /\ activeFlows'[c].completedStages = << "welcome" >>
             /\ ( /\ activeFlows[c].currentStage = "intake_questions"
                  /\ activeFlows'[c].stageData = activeFlows[c].stageData
                  /\ ~(getClient(c).found /\ getClient(c).intakeCompleted) )
                => /\ activeFlows'[c].currentStage = "intake_questions"
                   /\ activeFlows'[c].completedStages = activeFlows[c].completedStages]_vars

\* advanceFlow has returned at intake_questions, blocked on the intake, on a
\* flow that was started with {started:true}
C7_Witness ==
    /\ last.op = "advanceFlow" /\ ~last.isNull
    /\ last.status.currentStage = "intake_questions"
    /\ ~last.status.canProceed
    /\ activeFlows[last.cid].completedStages = << "welcome" >>
    /\ activeFlows[last.cid].stageData["welcome"] = Entry1("started", "true")
    /\ activeFlows[last.cid].stageData["intake_questions"] = EmptyEntry

\* C8: advanceFlow on a flow at complete changes neither currentStage nor
\* completedStages.
C8_NoOpAtComplete ==
    [][\A c \in Clients :
          (Called({"advanceFlow"}, c) /\ activeFlows[c].currentStage = "complete")
          => /\ activeFlows'[c].currentStage = activeFlows[c].currentStage
             /\ activeFlows'[c].completedStages = activeFlows[c].completedStages]_vars

\* C9: when the current stage's predicate is unsatisfied after the merge,
\* advanceFlow leaves currentStage and completedStages alone and returns a
\* status for that stage with canProceed false and at least one blocker.
C9_BlockedStatus ==
    [][\A c \in Clients :
          ( /\ Called({"advanceFlow"}, c)
            /\ ~completionCheck(activeFlows[c].currentStage, activeFlows'[c],
                                getClient(c)).canProceed )
          => /\ ~last'.isNull
             /\ activeFlows'[c].currentStage = activeFlows[c].currentStage
             /\ activeFlows'[c].completedStages = activeFlows[c].completedStages
             /\ last'.status.currentStage = activeFlows[c].currentStage
             /\ ~last'.status.canProceed
             /\ last'.status.blockers # << >>]_vars

\* C10: advanceFlow and its wrappers, called for a client without a flow
\* state, return null and leave the flow map as it was.
C10_NullWithoutFlow ==
    [][\A c \in Clients :
          (last'.op \in FlowOps /\ last'.cid = c /\ ~HasFlow(c))
          => /\ last'.isNull
             /\ activeFlows' = activeFlows]_vars

\* a wrapper has returned null for a client without a flow while another
\* client has one
C10_Witness ==
    /\ last.op \in FlowOps \ {"advanceFlow"}
    /\ last.isNull
    /\ ~HasFlow(last.cid)
    /\ \E other \in DOMAIN activeFlows :
          other # last.cid /\ activeFlows[other].currentStage # "welcome"

\* C11: getOrCreateFlowState leaves an existing flow state exactly as it
\* was; without one it creates a state at welcome with no completed stage,
\* summaryConfirmed false and the session id it was given.
C11_GetOrCreateKeeps ==
    [][\A c \in Clients :
          (last'.op = "getOrCreateFlowState" /\ last'.cid = c)
          => /\ c \in DOMAIN activeFlows'
             /\ IF HasFlow(c)
                THEN activeFlows'[c] = activeFlows[c]
                ELSE /\ activeFlows'[c].currentStage = "welcome"
                     /\ activeFlows'[c].completedStages = << >>
                     /\ activeFlows'[c].summaryConfirmed = FALSE
                     /\ activeFlows'[c].sessionId \in SessionIds
                     /\ activeFlows'[c].stageData = [s \in Stages |-> EmptyEntry]]_vars

\* getOrCreateFlowState has returned a flow that had already moved on and
\* recorded stage data
C11_Witness ==
    /\ last.op = "getOrCreateFlowState"
    /\ HasFlow(last.cid)
    /\ activeFlows[last.cid].currentStage = "document_checklist"
    /\ activeFlows[last.cid].summaryConfirmed
    /\ activeFlows[last.cid].stageData["summary_review"]["shown"] = "true"

\* C12: when start_intake has completed, the client's flow is past welcome.
C12_StartIntakeLeavesWelcome ==
    last.op = "start_intake" => activeFlows[last.cid].currentStage # "welcome"

\* C14: a flow at document_checklist or any later stage has its summary
\* confirmed.
C14_ConfirmedBeforeChecklist ==
    \A c \in DOMAIN activeFlows :
        IndexOf(activeFlows[c].currentStage) >= IndexOf("document_checklist")
        => activeFlows[c].summaryConfirmed

\* the confirmSummary call that moved a flow from summary_confirmation to
\* document_checklist has returned
C14_Witness ==
    /\ last.op = "confirmSummary"
    /\ HasFlow(last.cid)
    /\ activeFlows[last.cid].currentStage = "document_checklist"
    /\ activeFlows[last.cid].summaryConfirmed

WrapperOps == {"confirmSummary", "setSchedulingPreferences", "setSelectedTaxPro"}

\* the flow state after a wrapper's own assignments, before its advanceFlow
\* call; the argument is read back from the stored state
WrapperWrite(op, state, post) ==
    CASE op = "confirmSummary" ->
           [state EXCEPT
              !.summaryConfirmed = TRUE,
              !.stageData["summary_confirmation"] = Entry1("confirmed", "true")]
      [] op = "setSchedulingPreferences" ->
           [state EXCEPT
              !.preferredSchedule = post.preferredSchedule,
              !.stageData["availability_inquiry"] =
                  [Entry1("collected", "true") EXCEPT
                      !["preferences"] = post.preferredSchedule]]
      [] op = "setSelectedTaxPro" ->
           [state EXCEPT
              !.selectedTaxProId = post.selectedTaxProId,
              !.stageData["taxpro_routing"] =
                  [Entry1("selected", "true") EXCEPT
                      !["taxProId"] = IF post.selectedTaxProId = UNDEFINED
                                      THEN ABSENT ELSE post.selectedTaxProId]]

\* C16: a wrapper call on an existing flow leaves exactly the state that
\* writing its fields and then advanceFlow without stage data leaves: the
\* stage moves by at most one position, only when the predicate of the stage
\* current at the call holds after the write, and apart from currentStage and
\* completedStages the state is the written one.
C16_WrappersAreAdvanceFlow ==
    [][\A c \in Clients :
          Called(WrapperOps, c)
          => LET state == activeFlows[c]
                 post == activeFlows'[c]
                 written == WrapperWrite(last'.op, state, post)
                 result == completionCheck(state.currentStage, written, getClient(c))
             IN  /\ post = advanceFlow(written, getClient(c), NoData)
                 /\ IndexOf(post.currentStage) - IndexOf(state.currentStage) \in {0, 1}
                 /\ post.currentStage # state.currentStage => result.canProceed
                 /\ ~result.canProceed => post = written
                 /\ [post EXCEPT !.currentStage = state.currentStage,
                                 !.completedStages = state.completedStages]
                    = written]_vars

\* confirmSummary returned for a flow that was not at summary_confirmation:
\* the summary is confirmed and the flow is still before that stage
C16_Witness ==
    /\ last.op = "confirmSummary"
    /\ HasFlow(last.cid)
    /\ activeFlows[last.cid].summaryConfirmed
    /\ activeFlows[last.cid].stageData["summary_confirmation"]["confirmed"] = "true"
    /\ activeFlows[last.cid].currentStage = "intake_questions"

C20_OnlyEligibleReturned ==
    [][last'.op = "findBestTaxPro"
       => \A id \in (ToSet(last'.route.alternates) \cup {last'.route.taxPro}) \ {"null"} :
             /\ id \in DOMAIN taxPros
             /\ LevelOrdinal(taxPros[id].maxComplexity)
                   >= LevelOrdinal(last'.route.level)
             /\ taxPros[id].currentLoad < taxPros[id].maxDailyAppointments
             /\ taxPros[id].available]_vars

\* findBestTaxPro returned a professional while another one that covers the
\* level and the required specializations was at capacity, in a pool with an
\* unavailable professional
C20_Witness ==
    /\ last.op = "findBestTaxPro"
    /\ last.route.taxPro # "null"
    /\ \E id \in DOMAIN taxPros : ~taxPros[id].available
    /\ \E id \in DOMAIN taxPros :
          /\ taxPros[id].currentLoad >= taxPros[id].maxDailyAppointments
          /\ LevelOrdinal(taxPros[id].maxComplexity) >= LevelOrdinal(last.route.level)
          /\ last.route.required \subseteq taxPros[id].specializations

\* C13: a client that makes the calls of the documented walkthrough in order
\* passes the stages one at a time in sequence order and ends, for good, at
\* complete with progress 100% and the nine stages before it completed in
\* order.
C13_WalkthroughCompletes ==
    /\ [][\A c \in Clients :
            (HasFlow(c) /\ c \in DOMAIN activeFlows')
            => \/ activeFlows'[c].currentStage = activeFlows[c].currentStage
               \/ /\ last'.op # "create_appointment"
                  /\ IndexOf(activeFlows'[c].currentStage)
                        = IndexOf(activeFlows[c].currentStage) + 1
               \/ /\ last'.op = "create_appointment"
                  /\ activeFlows[c].currentStage = "appointment_scheduling"
                  /\ activeFlows'[c].currentStage = "complete"]_vars
    /\ \A c \in Clients :
          <>[](/\ HasFlow(c)
               /\ activeFlows[c].currentStage = "complete"
               /\ getFlowStatus(activeFlows[c], getClient(c)).progress.percentage = 100
               /\ activeFlows[c].completedStages = SubSeq(FLOW_SEQUENCE, 1, 9))

\* create_appointment, the last call of the walkthrough, returned with the
\* flow at complete
C13_Witness ==
    /\ last.op = "create_appointment"
    /\ walk[last.cid] = Len(WalkOrder)
    /\ last.status.currentStage = "complete"
    /\ last.status.progress.percentage = 100

\* C17: getFlowState, getFlowStatus, getFlowProgressDisplay and
\* getNextActionInstructions change no flow state and nothing in the client
\* store.
C17_ReadsChangeNothing ==
    [][last'.op \in ReadOps
       => activeFlows' = activeFlows /\ clients' = clients]_vars

\* a read returned the status of a flow in the middle of the walkthrough
C17_Witness ==
    /\ last.op = "getNextActionInstructions"
    /\ ~last.isNull
    /\ last.status.currentStage = "availability_inquiry"
    /\ HasFlow(last.cid)

\* C18: an advanceFlow, wrapper, getOrCreateFlowState or syncFlowWithState
\* call for one client leaves the flow state of every other client, and its
\* absence, as it was.
C18_ClientsIndependent ==
    [][\A a \in Clients :
          (/\ last'.cid = a
           /\ last'.op \in FlowOps \cup {"getOrCreateFlowState", "syncFlowWithState"})
          => \A b \in Clients \ {a} :
                /\ b \in DOMAIN activeFlows' <=> b \in DOMAIN activeFlows
                /\ b \in DOMAIN activeFlows => activeFlows'[b] = activeFlows[b]]_vars

\* syncFlowWithState returned for the client whose intake is complete and
\* moved its flow to summary_review while the other client's flow, created
\* with the same calls, is at intake_questions
C18_Witness ==
    /\ last.op = "syncFlowWithState"
    /\ last.cid = "c1"
    /\ HasFlow("c1") /\ HasFlow("c2")
    /\ activeFlows["c1"].currentStage = "summary_review"
    /\ activeFlows["c2"].currentStage = "intake_questions"

RouteOps == {"findBestTaxPro", "route_to_tax_pro"}

\* C21: the professional a client is routed to has every specialization the
\* client requires; one covering only part of them is never chosen.
C21_RequiredSpecializationsCovered ==
    [][(last'.op \in RouteOps /\ last'.route.taxPro # "null")
       => /\ last'.route.taxPro \in DOMAIN taxPros
          /\ last'.route.required \subseteq taxPros[last'.route.taxPro].specializations
          /\ "crypto" \in last'.route.required
             => "crypto" \in taxPros[last'.route.taxPro].specializations]_vars

\* a client requiring two specializations was routed while a professional
\* with capacity for the client's level covered only one of them
C21_Witness ==
    /\ last.op = "route_to_tax_pro"
    /\ ~last.isNull
    /\ Cardinality(last.route.required) = 2
    /\ \E id \in getAvailableTaxPros(taxPros) :
          /\ LevelOrdinal(taxPros[id].maxComplexity) >= LevelOrdinal(last.route.level)
          /\ last.route.required \cap taxPros[id].specializations # {}
          /\ ~(last.route.required \subseteq taxPros[id].specializations)

\* the professionals that match a level and required specializations and are
\* available, whatever their load
Matching(level, required, pool) ==
    { id \in DOMAIN pool :
         /\ pool[id].available
         /\ LevelOrdinal(pool[id].maxComplexity) >= LevelOrdinal(level)
         /\ required \subseteq pool[id].specializations }

\* C22: of two routeClientToTaxPro calls for two clients whose only eligible
\* professional had one free slot, made one after the other in either order,
\* the first is assigned the professional and the second reports no match; the
\* professional's load is not above maxDailyAppointments afterwards.
C22_LastSlotAssignedOnce ==
    [][\A a, b \in Clients :
          (/\ a # b
           /\ last.op = "route_to_tax_pro" /\ last.cid = a /\ ~last.isNull
           /\ last'.op = "route_to_tax_pro" /\ last'.cid = b
           /\ b \in DOMAIN clients
           /\ last'.route.level = last.route.level
           /\ last'.route.required = last.route.required
           /\ Matching(last.route.level, last.route.required, taxPros)
                 = {last.route.taxPro}
           /\ taxPros[last.route.taxPro].currentLoad
                 = taxPros[last.route.taxPro].maxDailyAppointments)
          => /\ last'.isNull
             /\ last'.route.taxPro = "null"
             /\ clients[a].assignedTaxPro = last.route.taxPro
             /\ clients' = clients
             /\ taxPros' = taxPros
             /\ taxPros'[last.route.taxPro].currentLoad
                   <= taxPros'[last.route.taxPro].maxDailyAppointments]_vars

\* the second client's call reported no match after the first client was
\* assigned the last slot of the only professional that handles crypto
C22_Witness ==
    /\ last.op = "route_to_tax_pro"
    /\ last.cid = "c2"
    /\ last.isNull
    /\ last.route.required = {"crypto"}
    /\ "c1" \in DOMAIN clients /\ "c2" \in DOMAIN clients
    /\ clients["c1"].assignedTaxPro = "tp-002"
    /\ clients["c2"].assignedTaxPro = UNDEFINED
    /\ taxPros["tp-002"].currentLoad = taxPros["tp-002"].maxDailyAppointments

\* C23: every professional's currentLoad is within 0..maxDailyAppointments.
C23_LoadWithinCapacity ==
    \A id \in DOMAIN taxPros :
        /\ 0 <= taxPros[id].currentLoad
        /\ taxPros[id].currentLoad <= taxPros[id].maxDailyAppointments

\* the pool with its entries in another Map order
Repositioned(pool, order) ==
    [id \in DOMAIN pool |-> [pool[id] EXCEPT !.position = order[id]]]

C25_RoutingEffects ==
    [][/\ last'.op = "findBestTaxPro"
          => clients' = clients /\ taxPros' = taxPros /\ activeFlows' = activeFlows
       /\ \A c \in Clients :
             (last'.op = "route_to_tax_pro" /\ last'.cid = c /\ ~last'.isNull)
             => /\ c \in DOMAIN clients
                /\ last'.route.taxPro \in DOMAIN taxPros
                /\ taxPros'[last'.route.taxPro].currentLoad
                      = taxPros[last'.route.taxPro].currentLoad + 1
                /\ taxPros' = [taxPros EXCEPT ![last'.route.taxPro].currentLoad = @ + 1]
                /\ clients'[c].assignedTaxPro = last'.route.taxPro
                /\ clients' = [clients EXCEPT
                                  ![c].assignedTaxPro = last'.route.taxPro]]_vars

\* the second client was routed to a professional while the first client
\* keeps the other professional it was assigned
C25_Witness ==
    /\ last.op = "route_to_tax_pro"
    /\ last.cid = "c2"
    /\ ~last.isNull
    /\ "c1" \in DOMAIN clients
    /\ clients["c1"].assignedTaxPro \in DOMAIN taxPros
    /\ clients["c1"].assignedTaxPro # last.route.taxPro
    /\ clients["c2"].assignedTaxPro = last.route.taxPro

\* C26: a routeClientToTaxPro call for an unknown client or without a
\* qualifying professional returns a failure, changes no professional's load
\* and no client's assignedTaxPro, and the route_to_tax_pro handler leaves
\* the client's flow state as it was.
C26_FailedRouteChangesNothing ==
    [][\A c \in Clients :
          (/\ last'.op = "route_to_tax_pro" /\ last'.cid = c
           /\ \/ c \notin DOMAIN clients
              \/ Candidates(last'.route.level, last'.route.required, taxPros) = {})
          => /\ last'.isNull
             /\ last'.route.taxPro = "null"
             /\ taxPros' = taxPros
             /\ clients' = clients
             /\ activeFlows' = activeFlows]_vars

\* route_to_tax_pro failed for want of a qualifying professional, for a
\* client whose flow has a professional selected and is past welcome
C26_Witness ==
    /\ last.op = "route_to_tax_pro"
    /\ last.isNull
    /\ last.cid \in DOMAIN clients
    /\ last.route.level = "expert"
    /\ HasFlow(last.cid)
    /\ activeFlows[last.cid].selectedTaxProId = "tp-001"
    /\ activeFlows[last.cid].currentStage # "welcome"

\* C27: when create_appointment has returned, the client's flow is at
\* complete, whatever stage it was at when the tool was called.
C27_AppointmentCompletesFlow ==
    (last.op = "create_appointment" /\ HasFlow(last.cid))
    => activeFlows[last.cid].currentStage = "complete"

\* C28: a process_intake_response call that completes the intake leaves the
\* client's flow at summary_review, also when no flow existed before the call
\* or the flow was still at welcome.
C28_CompletedIntakeReachesSummaryReview ==
    (last.op = "process_intake_response" /\ ~last.isNull)
    => /\ HasFlow(last.cid)
       /\ activeFlows[last.cid].currentStage = "summary_review"

\* C29: get_client_summary changes the flow only at summary_review, where it
\* records shown: true and moves the flow to summary_confirmation; at any
\* other stage, or without a flow, currentStage, completedStages and stageData
\* stay as they were.
C29_SummaryAdvancesOnlyAtReview ==
    [][\A c \in Clients :
          (last'.op = "get_client_summary" /\ last'.cid = c)
          => IF HasFlow(c) /\ activeFlows[c].currentStage = "summary_review"
             THEN /\ activeFlows'[c].currentStage = "summary_confirmation"
                  /\ activeFlows'[c].stageData["summary_review"] =
                        [activeFlows[c].stageData["summary_review"]
                            EXCEPT !["shown"] = "true"]
                  /\ activeFlows'[c].completedStages =
                        PushIfMissing(activeFlows[c].completedStages,
                                      "summary_review")
             ELSE activeFlows' = activeFlows]_vars

C29_Witness ==
    /\ last.op = "get_client_summary"
    /\ HasFlow(last.cid)
    /\ activeFlows[last.cid].currentStage = "summary_confirmation"
    /\ activeFlows[last.cid].stageData["summary_review"]["shown"] = "true"
    /\ ~Truthy(activeFlows[last.cid].stageData["summary_confirmation"]["shown"])

\* C30: advanceFlow(clientId, stageData) merges the data into the entry of
\* the stage that is current when the call starts: every supplied key takes
\* the new value, every other key of that entry keeps its value, the entries
\* of all other stages are unchanged, and this holds whether or not the stage
\* advances.
C30_StageDataMerged ==
    [][\A c \in MainClients, d \in DataInputs :
          (last'.op = "advanceFlow" /\ HasFlow(c) /\ AdvanceFlow(c, d))
          => LET stage == activeFlows[c].currentStage
                 old   == activeFlows[c].stageData
                 new   == activeFlows'[c].stageData
             IN  /\ \A k \in Keys :
                       new[stage][k] = IF d[k] # ABSENT THEN d[k]
                                       ELSE old[stage][k]
                 /\ \A s \in Stages \ {stage} : new[s] = old[s]]_vars

\* an advanceFlow call that did not advance stored its key next to the one
\* recorded before
C30_Witness ==
    /\ last.op = "advanceFlow"
    /\ HasFlow(last.cid)
    /\ activeFlows[last.cid].currentStage = "welcome"
    /\ activeFlows[last.cid].completedStages = <<>>
    /\ activeFlows[last.cid].stageData["welcome"]["started"] = "true"
    /\ activeFlows[last.cid].stageData["welcome"]["completed"] = "true"

\* C31: in the display of every flow, every stage before currentStage has the
\* completed marker, currentStage alone has the current marker and every stage
\* after currentStage has the pending marker.
C31_DisplayMarkersFollowPosition ==
    \A c \in DOMAIN activeFlows :
        LET state   == activeFlows[c]
            display == getFlowProgressDisplay(state)
            current == IndexOf(state.currentStage)
        IN  \A index \in 1..Len(FLOW_SEQUENCE) :
                display.markers[index] =
                    IF index < current THEN "completed"
                    ELSE IF index = current THEN "current" ELSE "pending"

\* C32: a syncFlowWithState call changes currentStage in one case only, from
\* welcome or intake_questions (the stage of a flow it has just created
\* included) to summary_review for a client whose intake is completed; it
\* sets selectedTaxProId to the client's assignedTaxPro when there is one, and
\* recording a checklist, a professional or an appointment moves no stage.
C32_SyncMovesOnlyToSummaryReview ==
    [][\A c \in Clients :
          (last'.op = "syncFlowWithState" /\ last'.cid = c)
          => LET before == IF HasFlow(c) THEN activeFlows[c].currentStage
                           ELSE "welcome"
                 after  == activeFlows'[c]
                 client == getClient(c)
             IN  /\ after.currentStage # before
                    => /\ before \in {"welcome", "intake_questions"}
                       /\ after.currentStage = "summary_review"
                       /\ client.found /\ client.intakeCompleted
                 /\ (client.found /\ client.assignedTaxPro # UNDEFINED)
                    => after.selectedTaxProId = client.assignedTaxPro]_vars

\* a sync that recorded a professional and an appointment at intake_questions
C32_Witness ==
    /\ last.op = "syncFlowWithState"
    /\ HasFlow(last.cid)
    /\ last.cid \in DOMAIN clients
    /\ clients[last.cid].assignedTaxPro = "tp-001"
    /\ clients[last.cid].appointmentId # UNDEFINED
    /\ activeFlows[last.cid].currentStage = "intake_questions"
    /\ activeFlows[last.cid].selectedTaxProId = "tp-001"
    /\ Includes(activeFlows[last.cid].completedStages, "appointment_scheduling")

\* C33: syncFlowWithState for an id the client store has no record of
\* returns a flow state: a new one at welcome with no completed stage when
\* the id had no flow, and otherwise the existing flow with currentStage and
\* completedStages as they were.
C33_SyncWithoutClientRecord ==
    [][\A c \in Clients :
          (last'.op = "syncFlowWithState" /\ last'.cid = c
           /\ c \notin DOMAIN clients)
          => /\ ~last'.isNull
             /\ c \in DOMAIN activeFlows'
             /\ IF HasFlow(c)
                THEN /\ activeFlows'[c].currentStage = activeFlows[c].currentStage
                     /\ activeFlows'[c].completedStages =
                           activeFlows[c].completedStages
                ELSE /\ activeFlows'[c].currentStage = "welcome"
                     /\ activeFlows'[c].completedStages = << >>]_vars

\* a sync for an id without a client record on a flow that had advanced
C33_Witness ==
    /\ last.op = "syncFlowWithState"
    /\ ~last.isNull
    /\ last.cid \notin DOMAIN clients
    /\ HasFlow(last.cid)
    /\ activeFlows[last.cid].currentStage = "intake_questions"
    /\ activeFlows[last.cid].completedStages = << "welcome" >>

\* C34: completedStages of every flow holds no stage more than once, whatever
\* advanceFlow, wrapper and syncFlowWithState calls produced it.
C34_CompletedStagesDistinct ==
    \A c \in DOMAIN activeFlows :
        \A i, j \in 1..Len(activeFlows[c].completedStages) :
            activeFlows[c].completedStages[i] = activeFlows[c].completedStages[j]
            => i = j

\* syncFlowWithState recorded appointment_scheduling early and the flow later
\* advanced through that stage
C34_Witness ==
    \E c \in DOMAIN activeFlows :
        /\ activeFlows[c].currentStage \in {"reminders_setup", "complete"}
        /\ Len(activeFlows[c].completedStages) >= 2
        /\ activeFlows[c].completedStages[2] = "appointment_scheduling"

\* C35: the progress getFlowStatus reports for a flow is current = position
\* of currentStage in the sequence (1..10), total = 10 and percentage =
\* 10 * current; no step lowers a flow's percentage, and the percentage is 100
\* exactly when currentStage is complete.
C35_ProgressFollowsPosition ==
    [][\A c \in DOMAIN activeFlows' :
          LET client   == IF c \in DOMAIN clients' THEN clients'[c] ELSE NoClient
              progress == getFlowStatus(activeFlows'[c], client).progress
          IN  /\ progress.current \in 1..10
              /\ FLOW_SEQUENCE[progress.current] = activeFlows'[c].currentStage
              /\ progress.total = 10
              /\ progress.percentage = 10 * progress.current
              /\ (progress.percentage = 100)
                    <=> (activeFlows'[c].currentStage = "complete")
              /\ HasFlow(c)
                 => progress.percentage >=
                       getFlowStatus(activeFlows[c], getClient(c)).progress.percentage]_vars

\* a flow call returned the status of a flow it had just moved to complete
C35_Witness ==
    /\ last.op \in FlowOps
    /\ ~last.isNull
    /\ last.status.currentStage = "complete"
    /\ last.status.progress.percentage = 100
    /\ last.status.progress.current = 10
    /\ HasFlow(last.cid)
    /\ ~Includes(activeFlows[last.cid].completedStages, "complete")

\* C36: the flow-local markers are monotone: no call sets a true
\* summaryConfirmed back to false or makes a defined preferredSchedule or
\* selectedTaxProId undefined.
C36_MarkersMonotone ==
    [][\A c \in DOMAIN activeFlows :
          /\ c \in DOMAIN activeFlows'
          /\ activeFlows[c].summaryConfirmed => activeFlows'[c].summaryConfirmed
          /\ activeFlows[c].preferredSchedule # UNDEFINED
             => activeFlows'[c].preferredSchedule # UNDEFINED
          /\ activeFlows[c].selectedTaxProId # UNDEFINED
             => activeFlows'[c].selectedTaxProId # UNDEFINED]_vars

\* C37: whenever a flow is at complete, its client has an appointment
\* (appointmentId is set) and the reminders_setup stage data records
\* created = true.
C37_CompleteHasAppointmentAndReminders ==
    \A c \in DOMAIN activeFlows :
        activeFlows[c].currentStage = "complete"
        => /\ c \in DOMAIN clients
           /\ clients[c].appointmentId # UNDEFINED
           /\ IsTrue(activeFlows[c].stageData["reminders_setup"]["created"])

\* an advanceFlow call has just moved a flow from reminders_setup to complete
C37_Witness ==
    /\ last.op = "advanceFlow"
    /\ HasFlow(last.cid)
    /\ activeFlows[last.cid].currentStage = "complete"
    /\ ~Includes(activeFlows[last.cid].completedStages, "complete")
    /\ last.cid \in DOMAIN clients
    /\ clients[last.cid].appointmentId # UNDEFINED

----------------------------------------------------------------------------
(* The legacy SSE transport of the HTTP bridge *)

\* the most SSE connections opened in a run
MaxSessions == 2

\* the methods a POST /messages body names: one answered without a tool and
\* tools/call
Methods == {"ping", "tools/call"}

\* the bridge tools that write to the store
BridgeTools == {"start_intake", "create_appointment"}

\* handleToolCall(name, args) of the bridge: the client store and the roster
\* after the call.  start_intake returns or creates the client;
\* create_appointment stamps the appointment on a known client and adds it to
\* the professional's load, and for an unknown client the service's error is
\* caught and nothing is stored
handleToolCall(name, c, taxProId, appointmentId) ==
    CASE name = "start_intake" ->
           [clients |-> startIntakeSession(c), taxPros |-> taxPros]
      [] name = "create_appointment" ->
           IF c \in DOMAIN clients
           THEN [clients |-> [clients EXCEPT ![c].appointmentId = appointmentId],
                 taxPros |-> updateTaxProLoad(taxPros, taxProId, 1)]
           ELSE [clients |-> clients, taxPros |-> taxPros]

\* what the bridge answered to a request
Answered(op, c, http, sessionId) ==
    [Returned(op, c, FALSE, NoStatus) EXCEPT !.http = http, !.session = sessionId]

\* GET /sse: a fresh session id from crypto.randomUUID() is stored with the
\* open response
GetSse ==
    /\ uuids < MaxSessions
    /\ uuids' = uuids + 1
    /\ sseSessions' = sseSessions \cup {uuids + 1}
    /\ last' = Answered("GET /sse", "none", 200, uuids + 1)
    /\ UNCHANGED <<activeFlows, clients, walk, taxPros>>

\* the close (or error) event of an open SSE connection
CloseSse(sessionId) ==
    /\ sessionId \in sseSessions
    /\ sseSessions' = sseSessions \ {sessionId}
    /\ last' = Answered("close", "none", 0, sessionId)
    /\ UNCHANGED <<activeFlows, clients, walk, taxPros, uuids>>

\* POST /messages that serves every request carrying a sessionId, without
\* looking the session up
PostMessages_anySession(sessionId, method, name, c) ==
    LET missing == sessionId = 0
        run     == ~missing /\ method = "tools/call"
        result  == handleToolCall(name, c, "tp-002", "apt-1")
    IN  /\ (run /\ name = "create_appointment")
           => taxPros["tp-002"].currentLoad < LoadCap
        /\ clients' = IF run THEN result.clients ELSE clients
        /\ taxPros' = IF run THEN result.taxPros ELSE taxPros
        /\ last' = Answered("POST /messages", c,
                            IF missing THEN 400 ELSE 200, sessionId)
        /\ UNCHANGED <<activeFlows, walk, sse>>

\* POST /messages?sessionId=...: 400 without a sessionId (0 stands for a
\* missing one), 404 for one that sseSessions does not hold, otherwise the
\* method is answered and tools/call runs the tool
PostMessages(sessionId, method, name, c) ==
    LET missing == sessionId = 0
        found   == sessionId \in sseSessions
        run     == ~missing /\ found /\ method = "tools/call"
        result  == handleToolCall(name, c, "tp-002", "apt-1")
    IN  /\ (run /\ name = "create_appointment")
           => taxPros["tp-002"].currentLoad < LoadCap
        /\ clients' = IF run THEN result.clients ELSE clients
        /\ taxPros' = IF run THEN result.taxPros ELSE taxPros
        /\ last' = Answered("POST /messages", c,
                            IF missing THEN 400 ELSE IF found THEN 200 ELSE 404,
                            sessionId)
        /\ UNCHANGED <<activeFlows, walk, sse>>

\* SSE connections opening and closing, and requests to /messages with every
\* session id, issued or not
NextSse ==
    \/ GetSse
    \/ \E sessionId \in 1..MaxSessions : CloseSse(sessionId)
    \/ \E sessionId \in 0..MaxSessions, method \in Methods,
          name \in BridgeTools, c \in Clients :
          PostMessages(sessionId, method, name, c)

SpecSse == Init /\ [][NextSse]_vars

\* C38: a POST /messages request is served only while its sessionId names an
\* open SSE connection: without a sessionId it is answered 400, with one that
\* was never issued or whose connection has closed 404, and in both cases no
\* tool runs: client, flow and roster state stay as they were.
C38_MessagesNeedOpenSession ==
    [][last'.op = "POST /messages"
       => /\ last'.session = 0 => last'.http = 400
          /\ (last'.session # 0 /\ last'.session \notin sseSessions)
             => last'.http = 404
          /\ last'.session \in sseSessions => last'.http = 200
          /\ last'.http \in {400, 404}
             => /\ clients' = clients
                /\ activeFlows' = activeFlows
                /\ taxPros' = taxPros]_vars

\* a request on a session that was issued and has closed, after a tool call
\* had stored a client
C38_Witness ==
    /\ last.op = "POST /messages"
    /\ last.http = 404
    /\ last.session \in 1..uuids
    /\ last.session \notin sseSessions
    /\ clients # << >>

====
